---- MODULE Spec2Model ----
(***************************************************************************)
(* BatchAnonymizerEngine of docs/samples/python/batch_processing.ipynb:    *)
(* anonymize_list and anonymize_dict, run as a stack machine that takes    *)
(* one loop iteration (or one call / return) per step.                     *)
(***************************************************************************)
EXTENDS Integers, Sequences, FiniteSets

VARIABLES call, stack, status, result, error, calls, list_log, dict_log

vars == <<call, stack, status, result, error, calls, list_log, dict_log>>

(***************************************************************************)
(* Python values.  A string is a sequence of one-character strings; a      *)
(* float w.d is kept as its whole part and its one fractional digit; a     *)
(* dict is the sequence of its items in insertion order.                   *)
(***************************************************************************)
PyStr(s) == [t |-> "str", s |-> s]
PyInt(n) == [t |-> "int", n |-> n]
PyBool(b) == [t |-> "bool", b |-> b]
PyFloat(w, d) == [t |-> "float", w |-> w, d |-> d]
PyNone == [t |-> "none"]
PyList(items) == [t |-> "list", items |-> items]
PyDict(items) == [t |-> "dict", items |-> items]

Min(a, b) == IF a <= b THEN a ELSE b

Digit(n) == <<"0", "1", "2", "3", "4", "5", "6", "7", "8", "9">>[n + 1]

RECURSIVE IntStr(_)
IntStr(n) ==
    IF n < 0 THEN <<"-">> \o IntStr(0 - n)
    ELSE IF n < 10 THEN <<Digit(n)>>
    ELSE IntStr(n \div 10) \o <<Digit(n % 10)>>

\* repr(text) in the place of str(text): a string comes with its quotes
repr(text) ==
    CASE text.t = "str" -> <<"'">> \o text.s \o <<"'">>
      [] text.t = "int" -> IntStr(text.n)
      [] text.t = "bool" -> IF text.b THEN <<"T", "r", "u", "e">>
                            ELSE <<"F", "a", "l", "s", "e">>
      [] text.t = "float" -> IntStr(text.w) \o <<".">> \o IntStr(text.d)
      [] text.t = "none" -> <<"N", "o", "n", "e">>

\* str(text): the characters of the string form of a scalar
str(text) ==
    CASE text.t = "str" -> text.s
      [] text.t = "int" -> IntStr(text.n)
      [] text.t = "bool" -> IF text.b THEN <<"T", "r", "u", "e">>
                            ELSE <<"F", "a", "l", "s", "e">>
      [] text.t = "float" -> IntStr(text.w) \o <<".">> \o IntStr(text.d)
      [] text.t = "none" -> <<"N", "o", "n", "e">>

\* type(text) in (str, bool, int, float), with int dropped from the tuple
IsAnonymizableNoInt(text) == text.t \in {"str", "bool", "float"}

\* type(text) in (str, bool, int, float)
IsAnonymizable(text) == text.t \in {"str", "bool", "int", "float"}

isinstance_dict(value) == value.t = "dict"
isinstance_str(value) == value.t = "str"
\* collections.abc.Iterable: dicts and strings are iterable too
isinstance_Iterable(value) == value.t \in {"dict", "str", "list"}

\* the elif chain with the generic-iterable test taken first
ClassifyIterableFirst(value) ==
    IF isinstance_Iterable(value) THEN "iterable"
    ELSE IF isinstance_dict(value) THEN "mapping"
    ELSE IF isinstance_str(value) THEN "string"
    ELSE "other"

\* the elif chain of anonymize_dict
Classify(value) ==
    IF isinstance_dict(value) THEN "mapping"
    ELSE IF isinstance_str(value) THEN "string"
    ELSE IF isinstance_Iterable(value) THEN "iterable"
    ELSE "other"

\* what iterating over a value yields: the elements of a list, the
\* characters of a string, the keys of a dict
Elements(value) ==
    CASE value.t = "list" -> value.items
      [] value.t = "str" -> [i \in 1..Len(value.s) |-> PyStr(<<value.s[i]>>)]
      [] value.t = "dict" -> [i \in 1..Len(value.items) |-> PyStr(<<value.items[i].key>>)]

(***************************************************************************)
(* AnonymizerEngine.anonymize, the single-text anonymizer: every span is   *)
(* replaced by <ENTITY_TYPE>; a span with start > end or end beyond the    *)
(* text is rejected with an error.                                         *)
(***************************************************************************)
SpanValid(text, span) == span.start <= span.end /\ span.end <= Len(text)

Placeholder(span) == <<"<", span.entity_type, ">">>

RECURSIVE ReplaceSpans(_, _)
ReplaceSpans(text, spans) ==
    IF spans = {} THEN text
    ELSE LET last == CHOOSE x \in spans : \A y \in spans : y.start <= x.start
             head == SubSeq(text, 1, last.start)
             tail == SubSeq(text, last.end + 1, Len(text))
         IN ReplaceSpans(head, spans \ {last}) \o Placeholder(last) \o tail

Anonymize(text, analyzer_results) ==
    LET spans == {analyzer_results[i] : i \in DOMAIN analyzer_results}
    IN IF \A x \in spans : SpanValid(text, x)
       THEN [ok |-> TRUE, text |-> ReplaceSpans(text, spans)]
       ELSE [ok |-> FALSE, text |-> text]

\* the error the anonymizer raises for a text it rejects
AnonymizerError(text) == [type |-> "InvalidParamError", text |-> text]
NoError == [type |-> "none"]
NoResult == [t |-> "no result"]

(***************************************************************************)
(* anonymize_list                                                          *)
(***************************************************************************)
\* lines 83-84 without the default
DefaultResultsMissing(texts, recognizer_results_list) == recognizer_results_list

\* if not recognizer_results_list: one empty list per text
DefaultResults(texts, recognizer_results_list) ==
    IF recognizer_results_list = <<>>
    THEN [i \in 1..Len(texts) |-> <<>>]
    ELSE recognizer_results_list

\* zip(texts, recognizer_results_list): stops at the shorter of the two
Zip(texts, recognizer_results_list) ==
    [i \in 1..Min(Len(texts), Len(recognizer_results_list)) |->
        [text |-> texts[i], recognizer_results |-> recognizer_results_list[i]]]

ListFrame(value, recognizer_results_list) ==
    [fn |-> "anonymize_list",
     pairs |-> Zip(Elements(value),
                   DefaultResults(Elements(value), recognizer_results_list)),
     pos |-> 1,
     return_list |-> <<>>]

ListLogEntry(value, recognizer_results_list) ==
    [texts |-> value, recognizer_results_list |-> recognizer_results_list,
     invoked |-> <<>>, outcome |-> "running", out |-> <<>>]

(***************************************************************************)
(* anonymize_dict                                                          *)
(***************************************************************************)
DictFrame(analyzer_results) ==
    [fn |-> "anonymize_dict", analyzer_results |-> analyzer_results,
     pos |-> 1, return_dict |-> <<>>]

\* return_dict[key] = val putting a new key first
DictSetFront(return_dict, key, val) ==
    IF \E i \in DOMAIN return_dict : return_dict[i].key = key
    THEN [i \in DOMAIN return_dict |->
            IF return_dict[i].key = key THEN [key |-> key, val |-> val]
            ELSE return_dict[i]]
    ELSE <<[key |-> key, val |-> val]>> \o return_dict

\* return_dict[key] = val: a new key goes last, an old key keeps its place
DictSet(return_dict, key, val) ==
    IF \E i \in DOMAIN return_dict : return_dict[i].key = key
    THEN [i \in DOMAIN return_dict |->
            IF return_dict[i].key = key THEN [key |-> key, val |-> val]
            ELSE return_dict[i]]
    ELSE Append(return_dict, [key |-> key, val |-> val])

RECURSIVE DictUpdate(_, _)
DictUpdate(return_dict, items) ==
    IF items = <<>> THEN return_dict
    ELSE DictUpdate(DictSet(return_dict, items[1].key, items[1].val), Tail(items))

\* the nested result merged into the enclosing dict
StoreFlattened(return_dict, key, resp) ==
    IF resp.t = "dict" THEN DictUpdate(return_dict, resp.items)
    ELSE DictSet(return_dict, key, resp)

\* return_dict[result.key] = resp for the value a call returned
StoreResponse(return_dict, key, resp) == DictSet(return_dict, key, resp)

\* an except clause in the caller that drops the leaf and goes on
PropagateCaught(stk) ==
    IF stk = <<>> THEN stk
    ELSE [stk EXCEPT ![Len(stk)].pos = stk[Len(stk)].pos + 1]

\* no frame has a try/except: a raised error unwinds every frame
Propagate(stk) == <<>>

(***************************************************************************)
(* The calls a caller can make, within the bounds.                         *)
(***************************************************************************)
MaxLen == 2      \* longest texts list of a top-level anonymize_list call
MaxSize == 3     \* most nodes and list elements in an anonymize_dict input

Keys == {"a", "b"}

PersonSpan == [entity_type |-> "PERSON", start |-> 0, end |-> 1]
BadSpan == [entity_type |-> "PERSON", start |-> 2, end |-> 1]

\* the detection results of one text: none, one span, one malformed span
SpanColls == {<<>>, <<PersonSpan>>, <<BadSpan>>}

Scalars == {PyInt(12), PyBool(TRUE), PyFloat(1, 5), PyNone}

\* what a texts list can hold: scalars, and the unsupported shapes
ElementKinds ==
    {PyStr(<<"a", "b">>)} \cup Scalars
        \cup {PyDict(<<[key |-> "k", val |-> PyInt(12)]>>), PyList(<<PyInt(12)>>)}

\* the elements of a list that is the value of a node
NodeElementKinds == {PyStr(<<"a", "b">>), PyInt(12)}

SeqsOfLen(S, n) == [1..n -> S]
SeqsUpTo(S, n) == UNION {SeqsOfLen(S, k) : k \in 0..n}

Node(key, value, recognizer_results) ==
    [key |-> key, value |-> value, recognizer_results |-> recognizer_results]

\* the dict a sequence of nodes was produced from
ValueOf(nodes) ==
    PyDict([i \in DOMAIN nodes |-> [key |-> nodes[i].key, val |-> nodes[i].value]])

RECURSIVE NodesOfSize(_, _), ForestsOfSize(_, _), ForestsHeadedBy(_, _, _, _),
          ForestsHeaded(_, _, _)
\* the nodes of one key that hold n values, the node included: a scalar, a
\* list with its per-element results (aligned, shorter, or none), a dict
\* with its nested nodes, and a dict the analyzer skipped (no results)
NodesOfSize(n, key) ==
    (IF n = 1
     THEN {Node(key, PyStr(<<"a", "b">>), r) : r \in SpanColls}
            \cup {Node(key, v, <<>>) : v \in Scalars}
     ELSE {})
    \cup {Node(key, PyList(p[1]), p[2])
            : p \in SeqsOfLen(NodeElementKinds, n - 1) \X SeqsUpTo(SpanColls, n - 1)}
    \cup {Node(key, ValueOf(nested), nested) : nested \in ForestsOfSize(n - 1, Keys)}
    \cup {Node(key, ValueOf(nested), <<>>) : nested \in ForestsOfSize(n - 1, Keys)}

\* the sequences of n values whose first node has the key and at most k values
ForestsHeadedBy(n, keys, key, k) ==
    IF k = 0 THEN {}
    ELSE {<<nd>> \o rest : nd \in NodesOfSize(k, key),
                           rest \in ForestsOfSize(n - k, keys \ {key})}
            \cup ForestsHeadedBy(n, keys, key, k - 1)

\* the sequences of n values whose first node has one of the keys in heads
ForestsHeaded(n, keys, heads) ==
    IF heads = {} THEN {}
    ELSE LET key == CHOOSE k \in heads : TRUE
         IN ForestsHeadedBy(n, keys, key, n)
                \cup ForestsHeaded(n, keys, heads \ {key})

\* the sequences of nodes with distinct keys that hold n values in all
ForestsOfSize(n, keys) ==
    IF n = 0 THEN {<<>>} ELSE ForestsHeaded(n, keys, keys)

\* anonymize_dict over n values whose first node has the key and k values
DictCalls(n, key, k) ==
    {[fn |-> "anonymize_dict", analyzer_results |-> <<nd>> \o rest]
        : nd \in NodesOfSize(k, key), rest \in ForestsOfSize(n - k, Keys \ {key})}

ListCalls ==
    {[fn |-> "anonymize_list", texts |-> PyList(p[1]), recognizer_results_list |-> p[2]]
        : p \in {q \in SeqsUpTo(ElementKinds, MaxLen) \X SeqsUpTo(SpanColls, MaxLen + 1)
                    : Len(q[2]) <= Len(q[1]) + 1}}

Init ==
    /\ \/ call = [fn |-> "anonymize_dict", analyzer_results |-> <<>>]
       \/ \E n \in 1..MaxSize : \E key \in Keys : \E k \in 1..n :
             call \in DictCalls(n, key, k)
       \/ call \in ListCalls
    /\ stack = IF call.fn = "anonymize_dict"
               THEN <<DictFrame(call.analyzer_results)>>
               ELSE <<ListFrame(call.texts, call.recognizer_results_list)>>
    /\ list_log = IF call.fn = "anonymize_dict" THEN <<>>
                  ELSE <<ListLogEntry(call.texts, call.recognizer_results_list)>>
    /\ dict_log = <<>>
    /\ status = "running"
    /\ result = NoResult
    /\ error = NoError
    /\ calls = <<>>

(***************************************************************************)
(* The steps.                                                              *)
(***************************************************************************)
Top == stack[Len(stack)]

InDict == stack # <<>> /\ Top.fn = "anonymize_dict"
InList == stack # <<>> /\ Top.fn = "anonymize_list"

\* the node the for loop of anonymize_dict is at
AtNode == InDict /\ Top.pos <= Len(Top.analyzer_results)
CurNode == Top.analyzer_results[Top.pos]

\* the pair the for loop of anonymize_list is at
AtPair == InList /\ Top.pos <= Len(Top.pairs)
CurPair == Top.pairs[Top.pos]

\* the frame after return_dict[result.key] = resp and the next iteration
Stored(frame, resp) ==
    [frame EXCEPT !.return_dict =
                      StoreResponse(frame.return_dict,
                                    frame.analyzer_results[frame.pos].key, resp),
                  !.pos = frame.pos + 1]

ReplaceTop(stk, frame) == [stk EXCEPT ![Len(stk)] = frame]
Pop(stk) == SubSeq(stk, 1, Len(stk) - 1)

SetLast(log, entry) == [log EXCEPT ![Len(log)] = entry]

\* the error leaves the frame that called the anonymizer
RaiseFrom(text) ==
    /\ stack' = Propagate(stack)
    /\ status' = IF Propagate(stack) = <<>> THEN "raised" ELSE status
    /\ error' = IF Propagate(stack) = <<>> THEN AnonymizerError(text) ELSE error

\* a call returns value: to its caller's return_dict, or to the user
Return(value) ==
    IF Len(stack) = 1
    THEN /\ stack' = <<>>
         /\ status' = "returned"
         /\ result' = value
    ELSE /\ stack' = ReplaceTop(Pop(stack), Stored(stack[Len(stack) - 1], value))
         /\ UNCHANGED <<status, result>>

\* isinstance(result.value, dict): recurse over the nested results
DictMapping ==
    /\ AtNode
    /\ Classify(CurNode.value) = "mapping"
    /\ stack' = Append(stack, DictFrame(CurNode.recognizer_results))
    /\ UNCHANGED <<call, status, result, error, calls, list_log, dict_log>>

\* isinstance(result.value, str): one call of the anonymizer
DictString ==
    /\ AtNode
    /\ Classify(CurNode.value) = "string"
    /\ LET text == CurNode.value.s
           resp == Anonymize(text, CurNode.recognizer_results)
       IN /\ calls' = Append(calls, [text |-> text,
                                     analyzer_results |-> CurNode.recognizer_results])
          /\ IF resp.ok
             THEN /\ stack' = ReplaceTop(stack, Stored(Top, PyStr(resp.text)))
                  /\ UNCHANGED <<status, error>>
             ELSE RaiseFrom(text)
    /\ UNCHANGED <<call, result, list_log, dict_log>>

\* isinstance(result.value, Iterable): call anonymize_list
DictIterable ==
    /\ AtNode
    /\ Classify(CurNode.value) = "iterable"
    /\ stack' = Append(stack, ListFrame(CurNode.value, CurNode.recognizer_results))
    /\ list_log' = Append(list_log,
                          ListLogEntry(CurNode.value, CurNode.recognizer_results))
    /\ UNCHANGED <<call, status, result, error, calls, dict_log>>

\* else: the value is stored as it is
DictOther ==
    /\ AtNode
    /\ Classify(CurNode.value) = "other"
    /\ stack' = ReplaceTop(stack, Stored(Top, CurNode.value))
    /\ UNCHANGED <<call, status, result, error, calls, list_log, dict_log>>

\* return return_dict
DictReturn ==
    /\ InDict
    /\ Top.pos > Len(Top.analyzer_results)
    /\ Return(PyDict(Top.return_dict))
    /\ dict_log' = Append(dict_log, [analyzer_results |-> Top.analyzer_results,
                                     out |-> PyDict(Top.return_dict)])
    /\ UNCHANGED <<call, error, calls, list_log>>

\* type(text) in (str, bool, int, float): anonymize str(text)
ListLeaf ==
    /\ AtPair
    /\ IsAnonymizable(CurPair.text)
    /\ LET text == str(CurPair.text)
           resp == Anonymize(text, CurPair.recognizer_results)
           entry == list_log[Len(list_log)]
           invoked == Append(entry.invoked, Top.pos)
       IN /\ calls' = Append(calls, [text |-> text,
                                     analyzer_results |-> CurPair.recognizer_results])
          /\ IF resp.ok
             THEN /\ stack' = ReplaceTop(stack,
                        [Top EXCEPT !.return_list = Append(@, PyStr(resp.text)),
                                    !.pos = @ + 1])
                  /\ list_log' = SetLast(list_log, [entry EXCEPT !.invoked = invoked])
                  /\ UNCHANGED <<status, error>>
             ELSE /\ RaiseFrom(text)
                  /\ list_log' = SetLast(list_log, [entry EXCEPT !.invoked = invoked,
                                                                 !.outcome = "raised"])
    /\ UNCHANGED <<call, result, dict_log>>

\* else: return_list.append(text)
ListPassThrough ==
    /\ AtPair
    /\ ~IsAnonymizable(CurPair.text)
    /\ stack' = ReplaceTop(stack, [Top EXCEPT !.return_list = Append(@, CurPair.text),
                                              !.pos = @ + 1])
    /\ UNCHANGED <<call, status, result, error, calls, list_log, dict_log>>

\* return return_list
ListReturn ==
    /\ InList
    /\ Top.pos > Len(Top.pairs)
    /\ Return(PyList(Top.return_list))
    /\ list_log' = SetLast(list_log, [list_log[Len(list_log)] EXCEPT
                                          !.outcome = "returned",
                                          !.out = Top.return_list])
    /\ UNCHANGED <<call, error, calls, dict_log>>

Next ==
    \/ DictMapping
    \/ DictString
    \/ DictIterable
    \/ DictOther
    \/ DictReturn
    \/ ListLeaf
    \/ ListPassThrough
    \/ ListReturn

Spec == Init /\ [][Next]_vars

(***************************************************************************)
(* Vocabulary of the properties.                                           *)
(***************************************************************************)
KeySeq(items) == [i \in DOMAIN items |-> items[i].key]
KeySet(items) == {items[i].key : i \in DOMAIN items}
HasKey(items, key) == key \in KeySet(items)
Lookup(items, key) == items[CHOOSE i \in DOMAIN items : items[i].key = key].val

IsNumberOrBool(value) == value.t \in {"bool", "int", "float"}

\* the anonymize_list calls that have returned
ReturnedListCalls == {i \in DOMAIN list_log : list_log[i].outcome = "returned"}

\* the span collection anonymize_list pairs with position i
SpansAt(entry, i) ==
    IF entry.recognizer_results_list = <<>> THEN <<>>
    ELSE entry.recognizer_results_list[i]

\* the recognizer_results_list is non-empty and not as long as texts
Mismatched(entry) ==
    /\ entry.recognizer_results_list # <<>>
    /\ Len(entry.recognizer_results_list) # Len(entry.texts.items)

\* what anonymize_list is to put at the position of text
ElementResult(text, recognizer_results) ==
    IF text.t \in {"str", "bool", "int", "float"}
    THEN PyStr(Anonymize(str(text), recognizer_results).text)
    ELSE text

\* the positions of texts that hold a string, boolean, integer or float
RECURSIVE EligiblePositions(_, _)
EligiblePositions(texts, i) ==
    IF i > Len(texts) THEN <<>>
    ELSE (IF texts[i].t \in {"str", "bool", "int", "float"} THEN <<i>> ELSE <<>>)
            \o EligiblePositions(texts, i + 1)

\* C1: anonymize_list called with a non-empty recognizer_results_list whose
\* length differs from the length of texts never returns a result list
C1_MismatchNeverReturns ==
    \A i \in DOMAIN list_log :
        Mismatched(list_log[i]) => list_log[i].outcome # "returned"

\* C2 as stated: every boolean, integer or float leaf, directly a value of a
\* node of anonymize_dict or an element of the texts of anonymize_list, is in
\* the output at its position with the same value and the same type
C2_NonStringLeavesUnchanged ==
    /\ \A j \in DOMAIN dict_log :
        \A i \in DOMAIN dict_log[j].analyzer_results :
            LET node == dict_log[j].analyzer_results[i]
            IN IsNumberOrBool(node.value) =>
                   /\ HasKey(dict_log[j].out.items, node.key)
                   /\ Lookup(dict_log[j].out.items, node.key) = node.value
    /\ \A j \in ReturnedListCalls :
        \A i \in DOMAIN list_log[j].out :
            IsNumberOrBool(list_log[j].texts.items[i]) =>
                list_log[j].out[i] = list_log[j].texts.items[i]

\* C2 amended: a boolean, integer or float that is directly the value of a
\* node of anonymize_dict is stored unchanged (same value, same type); one
\* that is an element of the texts of anonymize_list is replaced by the
\* string the single-text anonymizer returns for its string form, which is
\* the string form itself ("12" for 12, "True" for True) when the element
\* has no detections
C2_DirectUnchangedElementsStringified ==
    /\ \A j \in DOMAIN dict_log :
        \A i \in DOMAIN dict_log[j].analyzer_results :
            LET node == dict_log[j].analyzer_results[i]
            IN IsNumberOrBool(node.value) =>
                   /\ HasKey(dict_log[j].out.items, node.key)
                   /\ Lookup(dict_log[j].out.items, node.key) = node.value
    /\ \A j \in ReturnedListCalls :
        \A i \in DOMAIN list_log[j].out :
            LET text == list_log[j].texts.items[i]
                spans == SpansAt(list_log[j], i)
            IN IsNumberOrBool(text) =>
                   /\ list_log[j].out[i].t = "str"
                   /\ list_log[j].out[i].s = Anonymize(str(text), spans).text
                   /\ spans = <<>> => list_log[j].out[i] = PyStr(str(text))

\* an integer under a key came back as the integer, and an integer in a
\* list came back as the string of its digits
C2_Witness ==
    /\ \E j \in DOMAIN dict_log :
          \E i \in DOMAIN dict_log[j].out.items :
              dict_log[j].out.items[i].val = PyInt(12)
    /\ \E j \in ReturnedListCalls :
          \E i \in DOMAIN list_log[j].out :
              /\ list_log[j].texts.items[i] = PyInt(12)
              /\ list_log[j].out[i] = PyStr(<<"1", "2">>)

\* C3: for every node of anonymize_dict whose value is a mapping, the
\* mapping stored under the node's key has exactly the keys of that value,
\* also when the node's nested results are empty
C3_NestedKeySetPreserved ==
    \A j \in DOMAIN dict_log :
        \A i \in DOMAIN dict_log[j].analyzer_results :
            LET node == dict_log[j].analyzer_results[i]
                out == dict_log[j].out.items
            IN node.value.t = "dict" =>
                   /\ HasKey(out, node.key)
                   /\ Lookup(out, node.key).t = "dict"
                   /\ KeySet(Lookup(out, node.key).items) = KeySet(node.value.items)

\* C4: anonymize_dict over nodes with distinct keys returns a mapping whose
\* keys are the nodes' keys, in the order of the nodes
C4_KeysInNodeOrder ==
    \A j \in DOMAIN dict_log :
        KeySeq(dict_log[j].out.items) = KeySeq(dict_log[j].analyzer_results)

\* a call with two nodes of different shapes, one a mapping, has returned
C4_Witness ==
    \E j \in DOMAIN dict_log :
        LET nodes == dict_log[j].analyzer_results
        IN /\ Len(nodes) = 2
           /\ nodes[1].value.t # nodes[2].value.t
           /\ \E i \in 1..2 : nodes[i].value.t = "dict"
           /\ KeySeq(dict_log[j].out.items) = <<"b", "a">>

\* C5: when recognizer_results_list is empty or as long as texts, the list
\* anonymize_list returns is as long as texts, and its position i is what
\* texts[i] and the i-th span collection (none, for an empty
\* recognizer_results_list) give
C5_PositionwiseResult ==
    \A j \in ReturnedListCalls :
        LET entry == list_log[j]
            texts == entry.texts.items
        IN ~Mismatched(entry) =>
               /\ Len(entry.out) = Len(texts)
               /\ \A i \in DOMAIN texts :
                      entry.out[i] = ElementResult(texts[i], SpansAt(entry, i))

\* two different texts with aligned span collections came back in their
\* places, the second with its span replaced
C5_Witness ==
    \E j \in ReturnedListCalls :
        LET entry == list_log[j]
        IN /\ Len(entry.texts.items) = 2
           /\ entry.texts.items[1] # entry.texts.items[2]
           /\ Len(entry.out) = 2
           /\ Len(entry.recognizer_results_list) = 2
           /\ entry.out[2] = PyStr(<<"<", "PERSON", ">", "b">>)

\* every span collection among the nodes is empty
RECURSIVE NoDetections(_)
NoDetections(nodes) ==
    \A i \in DOMAIN nodes :
        LET node == nodes[i]
        IN CASE node.value.t = "dict" -> NoDetections(node.recognizer_results)
             [] node.value.t = "list" ->
                    \A k \in DOMAIN node.recognizer_results :
                        node.recognizer_results[k] = <<>>
             [] OTHER -> node.recognizer_results = <<>>

\* every span collection supplied to the call is empty
CallHasNoDetections ==
    IF call.fn = "anonymize_dict" THEN NoDetections(call.analyzer_results)
    ELSE \A k \in DOMAIN call.recognizer_results_list :
             call.recognizer_results_list[k] = <<>>

\* the data the call was made for
CallInput ==
    IF call.fn = "anonymize_dict" THEN ValueOf(call.analyzer_results)
    ELSE call.texts

\* every leaf of out is the leaf of in at the same place
RECURSIVE LeavesEqual(_, _)
LeavesEqual(out, in) ==
    CASE out.t = "dict" ->
            /\ in.t = "dict"
            /\ \A i \in DOMAIN out.items :
                   /\ HasKey(in.items, out.items[i].key)
                   /\ LeavesEqual(out.items[i].val, Lookup(in.items, out.items[i].key))
      [] out.t = "list" ->
            /\ in.t = "list"
            /\ Len(out.items) <= Len(in.items)
            /\ \A i \in DOMAIN out.items : LeavesEqual(out.items[i], in.items[i])
      [] OTHER -> out = in

\* as LeavesEqual, but a boolean, integer or float element of a list that
\* is a value of the mapping, or the texts, is matched by its string form
RECURSIVE LeavesEqualOrStringForm(_, _)
LeavesEqualOrStringForm(out, in) ==
    CASE out.t = "dict" ->
            /\ in.t = "dict"
            /\ \A i \in DOMAIN out.items :
                   /\ HasKey(in.items, out.items[i].key)
                   /\ LeavesEqualOrStringForm(out.items[i].val,
                                              Lookup(in.items, out.items[i].key))
      [] out.t = "list" ->
            /\ in.t = "list"
            /\ Len(out.items) <= Len(in.items)
            /\ \A i \in DOMAIN out.items :
                   IF IsNumberOrBool(in.items[i])
                   THEN out.items[i] = PyStr(str(in.items[i]))
                   ELSE out.items[i] = in.items[i]
      [] OTHER -> out = in

\* C6 as stated: when every span collection supplied is empty, every leaf
\* of the output equals the corresponding leaf of the input
C6_NoDetectionsLeavesEqual ==
    (status = "returned" /\ CallHasNoDetections) => LeavesEqual(result, CallInput)

\* C6 amended: when every span collection supplied is empty, every string
\* leaf of the output, and every other leaf that is not a boolean, integer
\* or float element of a list handled by anonymize_list, equals the
\* corresponding leaf of the input; a boolean, integer or float element of
\* such a list comes back as its string form
C6_NoDetectionsLeavesEqualOrStringForm ==
    (status = "returned" /\ CallHasNoDetections) =>
        LeavesEqualOrStringForm(result, CallInput)

\* a call without detections returned a string as it was, next to a
\* boolean that came back as "True"
C6_Witness ==
    /\ status = "returned"
    /\ CallHasNoDetections
    /\ call.fn = "anonymize_list"
    /\ call.texts.items = <<PyStr(<<"a", "b">>), PyBool(TRUE)>>
    /\ result = PyList(<<PyStr(<<"a", "b">>), PyStr(<<"T", "r", "u", "e">>)>>)

\* C7: under the key of a node whose value is a mapping, anonymize_dict
\* stores the mapping that anonymize_dict returned for the node's nested
\* results, and the enclosing mapping has no key but the keys of its nodes
C7_NestedResultStoredUnderKey ==
    \A j \in DOMAIN dict_log :
        LET nodes == dict_log[j].analyzer_results
            out == dict_log[j].out.items
        IN /\ KeySet(out) \subseteq KeySet(nodes)
           /\ \A i \in DOMAIN nodes :
                  nodes[i].value.t = "dict" =>
                      /\ HasKey(out, nodes[i].key)
                      /\ Lookup(out, nodes[i].key).t = "dict"
                      /\ \E k \in 1..(j - 1) :
                             /\ dict_log[k].analyzer_results = nodes[i].recognizer_results
                             /\ dict_log[k].out = Lookup(out, nodes[i].key)

\* a mapping with a key of its own was stored under "a", beside a sibling
C7_Witness ==
    \E j \in DOMAIN dict_log :
        LET nodes == dict_log[j].analyzer_results
            out == dict_log[j].out.items
        IN /\ Len(nodes) = 2
           /\ nodes[1].key = "a"
           /\ nodes[1].value.t = "dict"
           /\ KeySeq(nodes[1].recognizer_results) = <<"b">>
           /\ KeySeq(out) = <<"a", "b">>
           /\ KeySeq(out[1].val.items) = <<"b">>

\* the anonymizer rejects the text of its i-th call
Rejected(i) == ~Anonymize(calls[i].text, calls[i].analyzer_results).ok

\* C8: when the single-text anonymizer raises an error on a leaf, that call
\* is the last one made, every frame is left, the top-level call ends with
\* that error and no mapping or sequence is returned
C8_LeafErrorEndsTheCall ==
    \A i \in DOMAIN calls :
        Rejected(i) =>
            /\ i = Len(calls)
            /\ stack = <<>>
            /\ status = "raised"
            /\ error = AnonymizerError(calls[i].text)
            /\ result = NoResult

\* the second leaf, inside a nested mapping, was rejected while a later
\* node was still to come
C8_Witness ==
    /\ status = "raised"
    /\ call.fn = "anonymize_dict"
    /\ Len(call.analyzer_results) = 2
    /\ call.analyzer_results[1].value.t = "dict"
    /\ call.analyzer_results[1].recognizer_results # <<>>
    /\ Len(calls) = 1
    /\ Rejected(1)

\* C9: a node whose value is a string takes one call of the single-text
\* anonymizer with the whole string and no call of anonymize_list; a node
\* whose value is a mapping takes no call of anonymize_list either
C9_StringAndMappingNeverIterated ==
    [][/\ (AtNode /\ CurNode.value.t = "str") =>
              /\ list_log' = list_log
              /\ calls' = Append(calls, [text |-> CurNode.value.s,
                                         analyzer_results |-> CurNode.recognizer_results])
       /\ (AtNode /\ CurNode.value.t = "dict") =>
              /\ list_log' = list_log
              /\ calls' = calls]_vars

\* a call over a string and a mapping has returned: the anonymizer got the
\* whole string, and anonymize_list was not called
C9_Witness ==
    /\ status = "returned"
    /\ call.fn = "anonymize_dict"
    /\ Len(call.analyzer_results) = 2
    /\ call.analyzer_results[1].value = PyStr(<<"a", "b">>)
    /\ call.analyzer_results[2].value.t = "dict"
    /\ call.analyzer_results[2].value.items # <<>>
    /\ Len(calls) = 1
    /\ calls[1].text = <<"a", "b">>
    /\ list_log = <<>>

\* C10: an anonymize_list call that has returned invoked the single-text
\* anonymizer once for each string, boolean, integer or float element of
\* texts, in increasing position order, for no other element, and put every
\* other element in the output at its position unchanged
C10_OneCallPerEligibleElement ==
    \A j \in ReturnedListCalls :
        LET entry == list_log[j]
            texts == entry.texts.items
        IN /\ entry.invoked = EligiblePositions(texts, 1)
           /\ Len(entry.out) = Len(texts)
           /\ \A i \in DOMAIN texts :
                  texts[i].t \notin {"str", "bool", "int", "float"} =>
                      entry.out[i] = texts[i]

====
